---- MODULE Spec2Model ----
(***************************************************************************)
(* Lead Generation API (app/main.py, app/middleware.py, app/models.py,     *)
(* app/config.py, app/services.py, app/google_sheets.py).                  *)
(*                                                                         *)
(* The service is modelled as a set of concurrently handled HTTP requests  *)
(* that travel the ASGI stack FastAPI builds for this application:         *)
(*                                                                         *)
(*   ServerErrorMiddleware          (runs the Exception handler, 500)      *)
(*     append_request_id_header     (main.py 157-165, added last)          *)
(*       RequestIdMiddleware        (middleware.py 53-66)                  *)
(*         SlowAPIMiddleware        (default limits of undecorated routes) *)
(*           ExceptionMiddleware    (422 / HTTPException / 429 handlers)   *)
(*             router: GET /health, POST /lead                             *)
(*                                                                         *)
(* Strings that the code inspects character by character (phone, postal,   *)
(* names, state, email) are tuples of one-character strings.               *)
(***************************************************************************)
EXTENDS Integers, Sequences, FiniteSets, TLC

\* ------------------------------------------------------------------ bounds
\* requests keep arriving while the limiter holds at most
\* rate_limit_per_minute + ExtraHits counted requests
ExtraHits == 1
\* the configured rate limits explored are 1..MaxLimit
MaxLimit == 2
\* rows the spreadsheet ledger may collect
MaxRows == 2

\* ------------------------------------------------------- program constants
NameMaxLen == 100
AddressMaxLen == 255
StateMinLen == 2
StateMaxLen == 50
PhoneMinTail == 7
PhoneMaxTail == 14
PostalMinLen == 3
PostalMaxLen == 12

None == "<None>"
\* two requests in flight at a time
Slots == {1, 2}
Clients == {"10.0.0.1", "10.0.0.2"}
Paths == {"/health", "/lead"}

\* ------------------------------------------------------------ characters
Lowers == <<"a","b","c","d","e","f","g","h","i","j","k","l","m",
            "n","o","p","q","r","s","t","u","v","w","x","y","z">>
Uppers == <<"A","B","C","D","E","F","G","H","I","J","K","L","M",
            "N","O","P","Q","R","S","T","U","V","W","X","Y","Z">>
Digits == {"0","1","2","3","4","5","6","7","8","9"}
Whitespace == {" "}
Range(s) == {s[i] : i \in DOMAIN s}
Letters == Range(Lowers) \cup Range(Uppers)

\* str.upper() on one character, then on a string
UpperChar(c) ==
  IF \E i \in DOMAIN Lowers : Lowers[i] = c
  THEN Uppers[CHOOSE i \in DOMAIN Lowers : Lowers[i] = c]
  ELSE c
Upper(s) == [i \in DOMAIN s |-> UpperChar(s[i])]

\* str.strip(): drop leading and trailing whitespace (str_strip_whitespace=True)
RECURSIVE LStrip(_)
LStrip(s) == IF s # <<>> /\ Head(s) \in Whitespace THEN LStrip(Tail(s)) ELSE s
RECURSIVE RStrip(_)
RStrip(s) ==
  IF s # <<>> /\ s[Len(s)] \in Whitespace THEN RStrip(SubSeq(s, 1, Len(s) - 1)) ELSE s
Strip(s) == RStrip(LStrip(s))

\* _PHONE_PATTERN = ^\+?[1-9]\d{7,14}$
PhoneMatch(s) ==
  LET d == IF s # <<>> /\ Head(s) = "+" THEN Tail(s) ELSE s
  IN  /\ d # <<>>
      /\ Head(d) \in Digits \ {"0"}
      /\ Len(d) - 1 >= PhoneMinTail
      /\ Len(d) - 1 <= PhoneMaxTail
      /\ \A i \in 2..Len(d) : d[i] \in Digits

\* _POSTAL_PATTERN = ^[A-Za-z0-9\-\s]{3,12}$
PostalMatch(s) ==
  /\ Len(s) >= PostalMinLen
  /\ Len(s) <= PostalMaxLen
  /\ \A i \in DOMAIN s : s[i] \in Letters \cup Digits \cup {"-"} \cup Whitespace

\* EmailStr: one "@", a non-empty local part, a dotted domain
EmailValid(s) ==
  /\ Cardinality({i \in DOMAIN s : s[i] = "@"}) = 1
  /\ LET at == CHOOSE i \in DOMAIN s : s[i] = "@"
     IN  /\ at > 1
         /\ at < Len(s)
         /\ \E j \in (at + 2)..(Len(s) - 1) : s[j] = "."
         /\ \A j \in DOMAIN s : s[j] \notin Whitespace

\* ------------------------------------------------ models.py: the Lead schema
LeadFields ==
  <<"first_name", "last_name", "phone", "email", "address", "state", "postal", "jornaya">>
RequiredFields == {"first_name", "last_name", "phone", "email", "state", "postal"}

PhoneMessage == "Value error, phone must be in international format, e.g. +15551234567"
PostalMessage == "Value error, postal must be 3-12 characters, alphanumeric, spaces, or dashes"

\* one entry of RequestValidationError.errors(); ctx_json tells whether the
\* entry's ctx can be rendered by json.dumps (a field_validator's ValueError
\* is carried in ctx as the exception object itself)
Error(type, field, msg, ctx_json) ==
  [type |-> type, loc |-> field, msg |-> msg, ctx_json |-> ctx_json]

TooShort(f) == Error("string_too_short", f, "String is too short", TRUE)
TooLong(f) == Error("string_too_long", f, "String is too long", TRUE)

\* Field(min_length, max_length) on the stripped value; <<>> when it passes
LengthErrors(f, v, lo, hi) ==
  IF Len(v) < lo THEN <<TooShort(f)>>
  ELSE IF Len(v) > hi THEN <<TooLong(f)>>
  ELSE <<>>

validate_phone(v) ==
  IF PhoneMatch(v) THEN <<>> ELSE <<Error("value_error", "phone", PhoneMessage, FALSE)>>

validate_postal(v) ==
  IF PostalMatch(v) THEN <<>> ELSE <<Error("value_error", "postal", PostalMessage, FALSE)>>

normalize_state(v) == Upper(v)

\* the errors of one declared field of the body, in the order pydantic runs
FieldErrors(body, f) ==
  IF f \notin DOMAIN body
  THEN IF f \in RequiredFields
       THEN <<Error("missing", f, "Field required", TRUE)>>
       ELSE <<>>
  ELSE LET v == Strip(body[f])
       IN  CASE f \in {"first_name", "last_name"} -> LengthErrors(f, v, 1, NameMaxLen)
             [] f = "phone" -> validate_phone(v)
             [] f = "email" ->
                  IF EmailValid(v) THEN <<>>
                  ELSE <<Error("value_error", f, "value is not a valid email address", TRUE)>>
             [] f = "address" -> LengthErrors(f, v, 0, AddressMaxLen)
             [] f = "state" -> LengthErrors(f, v, StateMinLen, StateMaxLen)
             [] f = "postal" -> validate_postal(v)
             [] OTHER -> <<>>

RECURSIVE DeclaredErrors(_, _)
DeclaredErrors(body, i) ==
  IF i > Len(LeadFields) THEN <<>>
  ELSE FieldErrors(body, LeadFields[i]) \o DeclaredErrors(body, i + 1)

\* extra="forbid": one error per field of the body that the schema lacks
RECURSIVE ExtraErrors(_)
ExtraErrors(names) ==
  IF names = {} THEN <<>>
  ELSE LET f == CHOOSE x \in names : TRUE
       IN  <<Error("extra_forbidden", f, "Extra inputs are not permitted", TRUE)>>
             \o ExtraErrors(names \ {f})

ValidationErrors(body) ==
  DeclaredErrors(body, 1) \o ExtraErrors(DOMAIN body \ Range(LeadFields))

\* the Lead instance built from a body without errors: exactly the declared
\* fields, strings stripped, state upper-cased, absent optionals None
Lead(body) ==
  [f \in Range(LeadFields) |->
     IF f \notin DOMAIN body THEN None
     ELSE IF f = "state" THEN normalize_state(Strip(body[f]))
     ELSE Strip(body[f])]

\* getattr on a pydantic model: only declared fields are attributes
HasAttr(lead, name) == name \in DOMAIN lead

\* -------------------------------------------------------- request bodies
S_Jane == <<"J","a","n","e">>
S_Doe == <<"D","o","e">>
S_Phone == <<"+","1","5","5","5","1","2","3","4","5","6","7">>
S_Email == <<"j","@","e","x",".","c","o">>
S_State == <<" ","c","a">>
S_Postal == <<"9","0","2","1","0">>

BodyValid ==
  [first_name |-> S_Jane, last_name |-> S_Doe, phone |-> S_Phone,
   email |-> S_Email, state |-> S_State, postal |-> S_Postal]
BodyNoEmail ==
  [first_name |-> S_Jane, last_name |-> S_Doe, phone |-> S_Phone,
   state |-> S_State, postal |-> S_Postal]
BodyBadPhone == [BodyValid EXCEPT !.phone = <<"1","2","3">>]
BodyExtra ==
  [first_name |-> S_Jane, last_name |-> S_Doe, phone |-> S_Phone,
   email |-> S_Email, state |-> S_State, postal |-> S_Postal,
   source_url |-> <<"h","t","t","p">>]
BodyFull ==
  [first_name |-> S_Jane, last_name |-> S_Doe, phone |-> S_Phone,
   email |-> S_Email, address |-> <<"1"," ","M","a","i","n">>, state |-> S_State,
   postal |-> S_Postal, jornaya |-> <<"t","o","k">>]
BodyTable ==
  [valid |-> BodyValid, full |-> BodyFull, no_email |-> BodyNoEmail,
   bad_phone |-> BodyBadPhone, extra |-> BodyExtra]
\* the bodies POST /lead is sent in the request model
Bodies == {"valid", "no_email", "bad_phone", "extra"}

\* ------------------------------------------------------ config.py: Settings
\* bool(x) of an optional string: None and "" are falsy
Truthy(x) == x # None /\ x # ""

validate_rate_limit(value) == value > 0

google_sheets_enabled(st) ==
  Truthy(st.google_sheet_id) /\ Truthy(st.google_service_account_json)

\* the settings explored by the request model: every accepted rate limit,
\* the spreadsheet ledger left unconfigured
SettingsSet ==
  { [rate_limit_per_minute |-> n,
     google_sheet_id |-> None,
     google_service_account_json |-> None,
     google_sheet_worksheet |-> None] :
      n \in {v \in 0..MaxLimit : validate_rate_limit(v)} }

\* the settings explored by the spreadsheet model: each optional field unset,
\* empty or set, the credential blob also set to text that is not JSON
SheetSettingsSet ==
  { [rate_limit_per_minute |-> n,
     google_sheet_id |-> i,
     google_service_account_json |-> j,
     google_sheet_worksheet |-> w] :
      n \in {v \in 0..MaxLimit : validate_rate_limit(v)},
      i \in {None, "", "sheet-1"},
      j \in {None, "", "{json}", "not json"},
      w \in {None, "Leads"} }

\* ------------------------------------------------------------- responses
NoHeader == None
Response(code, status, message, data, details) ==
  [status_code |-> code, status |-> status, message |-> message,
   data |-> data, details |-> details, x_request_id |-> NoHeader]

Returned(resp) == [kind |-> "response", resp |-> resp, exc |-> None]
Raised(exc) ==
  [kind |-> "exception", resp |-> Response(0, None, None, {}, <<>>), exc |-> exc]
Pending == [kind |-> "none", resp |-> Response(0, None, None, {}, <<>>), exc |-> None]

\* main.py 79-89: JSONResponse renders its content with json.dumps when it is
\* constructed, so an entry whose ctx holds an exception object makes the
\* handler itself raise TypeError
validation_exception_handler(errors) ==
  LET message == IF errors # <<>> THEN errors[1].msg ELSE "Validation error"
  IN  IF \A i \in DOMAIN errors : errors[i].ctx_json
      THEN Returned(Response(422, "error", message, {}, errors))
      ELSE Raised("TypeError")

\* main.py 92-104
http_exception_handler(code, detail) ==
  Returned(Response(code, "error", detail, {}, <<>>))

\* main.py 107-115
general_exception_handler ==
  Returned(Response(500, "error", "Server error", {}, <<>>))

\* middleware.py 69-80
rate_limit_exceeded_handler ==
  Returned(Response(429, "error", "Too many requests. Please slow down.", {}, <<>>))

\* main.py 118-122
health_check == Returned(Response(200, "success", "OK", {}, <<>>))

\* --------------------------------------------- services.py, google_sheets.py
\* forward_to_crm: sleeps 50 ms, logs, returns
forward_to_crm(lead) == "returned"

\* config.py 39-46: the credential blob must parse as JSON
ValidJson(x) == x = "{json}"
google_service_account_info(st) ==
  IF ~Truthy(st.google_service_account_json) THEN "ValueError"
  ELSE IF ValidJson(st.google_service_account_json) THEN "info"
  ELSE "ValueError"

\* google_sheets.py 34-48: the row appended for a lead
OrEmpty(x) == IF x = None THEN <<>> ELSE x
SheetRow(lead) ==
  << <<"utcnow">>, lead.first_name, lead.last_name, lead.phone, lead.email,
     OrEmpty(lead.address), lead.state, lead.postal, OrEmpty(lead.jornaya) >>

\* google_sheets.py 24-48: credentials, then the gspread round trip, whose
\* outcome is net
append_row_to_sheet(st, net) ==
  IF google_service_account_info(st) = "ValueError"
  THEN [outcome |-> "ValueError", network |-> FALSE, appended |-> FALSE]
  ELSE IF net = "ok" THEN [outcome |-> "returned", network |-> TRUE, appended |-> TRUE]
  ELSE [outcome |-> "APIError", network |-> TRUE, appended |-> FALSE]

\* google_sheets.py 51-61: a call of append_lead_to_sheet with nargs
\* positional arguments; the function declares one parameter (lead)
append_lead_to_sheet(nargs, st, net) ==
  IF nargs # 1 THEN [outcome |-> "TypeError", network |-> FALSE, appended |-> FALSE]
  ELSE IF ~google_sheets_enabled(st)
  THEN [outcome |-> "returned", network |-> FALSE, appended |-> FALSE]
  ELSE append_row_to_sheet(st, net)

\* main.py 127-154: what the handler does with a validated lead. steps lists
\* the downstream calls it started, logs the records it wrote.
create_lead(lead, st, net) ==
  IF ~HasAttr(lead, "source_url")
  THEN \* line 132: lead.source_url raises AttributeError, outside the try
       [result |-> Raised("AttributeError"), steps |-> <<>>, logs |-> <<>>]
  ELSE LET crm == forward_to_crm(lead)
           sheet == append_lead_to_sheet(2, st, net)
       IN  IF crm # "returned"
           THEN [result |-> http_exception_handler(502, "Failed to process lead"),
                 steps |-> <<"crm">>,
                 logs |-> <<"Lead accepted", "Failed processing downstream integrations",
                            "HTTP exception raised">>]
           ELSE IF sheet.outcome # "returned"
           THEN [result |-> http_exception_handler(502, "Failed to process lead"),
                 steps |-> IF sheet.outcome = "TypeError" THEN <<"crm">>
                           ELSE <<"crm", "sheet">>,
                 logs |-> <<"Lead accepted", "Forwarded lead to CRM",
                            "Failed processing downstream integrations",
                            "HTTP exception raised">>]
           ELSE [result |-> Returned(Response(201, "success", "Lead accepted", {lead}, <<>>)),
                 steps |-> <<"crm", "sheet">>,
                 logs |-> <<"Lead accepted", "Forwarded lead to CRM">>]

\* ------------------------------------------------ the limiter (slowapi)
\* Limiter(key_func=get_remote_address): one counter per client address and
\* route path, opened by the key's first hit and dropped when its minute ends
Keys == Clients \X Paths
DecoratedRoutes == {"/lead"}
\* the limit string written as a literal instead of read from the settings
default_limit_literal(st) == 60
\* middleware.py 86: default_limits=[f"{settings.rate_limit_per_minute}/minute"]
default_limit(st) == st.rate_limit_per_minute
\* the decorator's limit written as a literal
route_limit_literal(st) == 60
\* main.py 126: @limiter.limit(f"{settings.rate_limit_per_minute}/minute")
route_limit(st) == st.rate_limit_per_minute
\* SlowAPIMiddleware leaves a route that carries @limiter.limit to its decorator
should_exempt(path) == path \in DecoratedRoutes
\* FixedWindowRateLimiter.hit: the counter is incremented, then compared
hit(count, limit) == count + 1 <= limit

\* ------------------------------------------------------------------ state
VARIABLES
  settings,   \* the cached Settings instance (config.py get_settings)
  pc,         \* where each request is in the stack
  req,        \* each request: client address, path, body, X-Request-ID header
  state_id,   \* request.state.request_id
  ctx,        \* request_id_ctx_var as seen by the request's tasks
  token,      \* the value request_id_ctx_var.set replaced (Token.old_value)
  result,     \* the response or exception travelling back up the stack
  storage,    \* the limiter's counters
  seen,       \* the counter value the limiter read for this request, or -1
  steps,      \* downstream calls started by create_lead for this request
  log,        \* records written for this request: <<message, request_id>>
  sheet_call, \* the last call of append_lead_to_sheet and how it ended
  sheet_rows  \* the rows of the spreadsheet ledger

vars == <<settings, pc, req, state_id, ctx, token, result, storage, seen, steps, log,
          sheet_call, sheet_rows>>
sheet_vars == <<sheet_call, sheet_rows>>
request_vars == <<pc, req, state_id, ctx, token, result, storage, seen, steps, log>>

Default == "-"
NoRequest == [client |-> None, path |-> None, body |-> None, header |-> None]
FreshCtx == [outer |-> Default, dispatch |-> Default, inner |-> Default]

\* str(uuid.uuid4()) of the request in slot r, and the ids its client may send
Uuid(r) == "uuid-" \o ToString(r)
HeaderChoices(r) == {None, "abc-" \o ToString(r)}

\* get_request_id(): the contextvar's value in the calling task's context
get_request_id(c, task) == c[task]

\* a record written through the logging filter from the given task
Record(r, message, task) == <<message, get_request_id(ctx[r], task)>>
RECURSIVE Records(_, _, _)
Records(r, messages, task) ==
  IF messages = <<>> THEN {}
  ELSE {Record(r, Head(messages), task)} \cup Records(r, Tail(messages), task)

NoCall == [nargs |-> 0, outcome |-> None, network |-> FALSE, appended |-> FALSE]

Idle ==
  /\ pc = [r \in Slots |-> "idle"]
  /\ req = [r \in Slots |-> NoRequest]
  /\ state_id = [r \in Slots |-> None]
  /\ ctx = [r \in Slots |-> FreshCtx]
  /\ token = [r \in Slots |-> Default]
  /\ result = [r \in Slots |-> Pending]
  /\ storage = [k \in Keys |-> 0]
  /\ seen = [r \in Slots |-> -1]
  /\ steps = [r \in Slots |-> <<>>]
  /\ log = [r \in Slots |-> {}]
  /\ sheet_call = NoCall
  /\ sheet_rows = <<>>

Init ==
  /\ settings \in SettingsSet
  /\ Idle

\* counted requests the limiter holds, and requests not yet through it
RECURSIVE SumOver(_, _)
SumOver(f, ks) ==
  IF ks = {} THEN 0
  ELSE LET k == CHOOSE x \in ks : TRUE IN f[k] + SumOver(f, ks \ {k})
TotalHits == SumOver(storage, Keys)
InFlight == Cardinality({q \in Slots : pc[q] \in {"slowapi", "endpoint"}})

\* a request arrives and reaches RequestIdMiddleware.dispatch, which runs
\* to its call_next (middleware.py 57-62); call_next starts the rest of the
\* stack in a task that holds a copy of dispatch's context
RequestIdEnter(r, client, path, body, header) ==
  /\ pc[r] = "idle"
  /\ TotalHits + InFlight <= settings.rate_limit_per_minute + ExtraHits
  /\ req' = [req EXCEPT ![r] =
       [client |-> client, path |-> path,
        body |-> IF path = "/lead" THEN body ELSE None, header |-> header]]
  /\ LET incoming == header
         request_id == IF Truthy(incoming) THEN incoming ELSE Uuid(r)
     IN  /\ token' = [token EXCEPT ![r] = ctx[r].dispatch]
         /\ ctx' = [ctx EXCEPT ![r].dispatch = request_id, ![r].inner = request_id]
         /\ state_id' = [state_id EXCEPT ![r] = request_id]
  /\ pc' = [pc EXCEPT ![r] = "slowapi"]
  /\ UNCHANGED <<sheet_vars, settings, result, storage, seen, steps, log>>

\* SlowAPIMiddleware.dispatch: the default limit of every undecorated route
SlowAPIDispatch(r) ==
  /\ pc[r] = "slowapi"
  /\ LET k == <<req[r].client, req[r].path>>
     IN  IF should_exempt(req[r].path)
         THEN /\ pc' = [pc EXCEPT ![r] = "endpoint"]
              /\ UNCHANGED <<result, storage, seen, log>>
         ELSE /\ storage' = [storage EXCEPT ![k] = @ + 1]
              /\ seen' = [seen EXCEPT ![r] = storage[k]]
              /\ IF hit(storage[k], default_limit(settings))
                 THEN /\ pc' = [pc EXCEPT ![r] = "endpoint"]
                      /\ UNCHANGED <<result, log>>
                 ELSE /\ pc' = [pc EXCEPT ![r] = "unwind"]
                      /\ result' = [result EXCEPT ![r] = rate_limit_exceeded_handler]
                      /\ log' = [log EXCEPT ![r] = @ \cup
                           {Record(r, "ratelimit exceeded", "inner")}]
  /\ UNCHANGED <<sheet_vars, settings, req, state_id, ctx, token, steps>>

\* GET /health
HealthEndpoint(r) ==
  /\ pc[r] = "endpoint"
  /\ req[r].path = "/health"
  /\ result' = [result EXCEPT ![r] = health_check]
  /\ pc' = [pc EXCEPT ![r] = "unwind"]
  /\ UNCHANGED <<sheet_vars, settings, req, state_id, ctx, token, storage, seen, steps, log>>

\* POST /lead: FastAPI validates the body, then calls the endpoint, which is
\* the @limiter.limit wrapper around create_lead; nothing awaits in between
LeadEndpoint(r, net) ==
  /\ pc[r] = "endpoint"
  /\ req[r].path = "/lead"
  /\ pc' = [pc EXCEPT ![r] = "unwind"]
  /\ LET body == BodyTable[req[r].body]
         errors == ValidationErrors(body)
         k == <<req[r].client, req[r].path>>
         done == create_lead(Lead(body), settings, net)
     IN  IF errors # <<>>
         THEN /\ result' = [result EXCEPT ![r] = validation_exception_handler(errors)]
              /\ log' = [log EXCEPT ![r] = @ \cup {Record(r, "Validation failed", "inner")}]
              /\ UNCHANGED <<storage, seen, steps>>
         ELSE /\ storage' = [storage EXCEPT ![k] = @ + 1]
              /\ seen' = [seen EXCEPT ![r] = storage[k]]
              /\ IF ~hit(storage[k], route_limit(settings))
                 THEN /\ result' = [result EXCEPT ![r] = rate_limit_exceeded_handler]
                      /\ log' = [log EXCEPT ![r] = @ \cup
                           {Record(r, "ratelimit exceeded", "inner")}]
                      /\ UNCHANGED steps
                 ELSE /\ result' = [result EXCEPT ![r] = done.result]
                      /\ steps' = [steps EXCEPT ![r] = done.steps]
                      /\ log' = [log EXCEPT ![r] = @ \cup Records(r, done.logs, "inner")]
  /\ UNCHANGED <<sheet_vars, settings, req, state_id, ctx, token>>

\* reset placed after the await instead of in a finally clause
dispatch_exit_no_finally(current, old_value, res) ==
  IF res.kind = "exception" THEN current ELSE old_value
\* the value the contextvar holds once dispatch has left its try/finally
dispatch_exit(current, old_value, res) == old_value

\* middleware.py 63-66: finally reset(token); the header is set on a response
RequestIdExit(r) ==
  /\ pc[r] = "unwind"
  /\ ctx' = [ctx EXCEPT ![r].dispatch = dispatch_exit(@, token[r], result[r])]
  /\ result' = [result EXCEPT ![r] =
       IF @.kind = "response" THEN [@ EXCEPT !.resp.x_request_id = state_id[r]] ELSE @]
  /\ pc' = [pc EXCEPT ![r] = "outer"]
  /\ UNCHANGED <<sheet_vars, settings, req, state_id, token, storage, seen, steps, log>>

\* main.py 161-165: the response came back through call_next
append_request_id_header(r) ==
  /\ pc[r] = "outer"
  /\ result[r].kind = "response"
  /\ LET request_id == IF Truthy(state_id[r]) THEN state_id[r]
                       ELSE get_request_id(ctx[r], "outer")
     IN  result' = [result EXCEPT ![r] =
           IF Truthy(request_id) /\ @.resp.x_request_id = NoHeader
           THEN [@ EXCEPT !.resp.x_request_id = request_id] ELSE @]
  /\ pc' = [pc EXCEPT ![r] = "done"]
  /\ UNCHANGED <<sheet_vars, settings, req, state_id, ctx, token, storage, seen, steps, log>>

\* the exception left every user middleware: ServerErrorMiddleware runs the
\* Exception handler (main.py 107-115) and sends its response itself
ServerError(r) ==
  /\ pc[r] = "outer"
  /\ result[r].kind = "exception"
  /\ log' = [log EXCEPT ![r] = @ \cup {Record(r, "Unhandled exception", "outer")}]
  /\ result' = [result EXCEPT ![r] = [general_exception_handler EXCEPT !.exc = result[r].exc]]
  /\ pc' = [pc EXCEPT ![r] = "done"]
  /\ UNCHANGED <<sheet_vars, settings, req, state_id, ctx, token, storage, seen, steps>>

\* the response is sent; the request's tasks and state are discarded, the
\* context dispatch ran in is left as dispatch left it
Close(r) ==
  /\ pc[r] = "done"
  /\ pc' = [pc EXCEPT ![r] = "idle"]
  /\ req' = [req EXCEPT ![r] = NoRequest]
  /\ state_id' = [state_id EXCEPT ![r] = None]
  /\ ctx' = [ctx EXCEPT ![r].outer = Default, ![r].inner = Default]
  /\ token' = [token EXCEPT ![r] = Default]
  /\ result' = [result EXCEPT ![r] = Pending]
  /\ seen' = [seen EXCEPT ![r] = -1]
  /\ steps' = [steps EXCEPT ![r] = <<>>]
  /\ log' = [log EXCEPT ![r] = {}]
  /\ UNCHANGED <<sheet_vars, settings, storage>>

\* a key's minute ends: the limiter's storage drops its counter
WindowExpire(k) ==
  /\ storage[k] > 0
  /\ storage' = [storage EXCEPT ![k] = 0]
  /\ UNCHANGED <<sheet_vars, settings, pc, req, state_id, ctx, token, result, seen, steps, log>>

\* the requests of the given slots, sent from the given client addresses
NextOn(S, C) ==
  \/ \E r \in S, c \in C, p \in Paths, b \in Bodies :
       \E h \in HeaderChoices(r) : RequestIdEnter(r, c, p, b, h)
  \/ \E r \in S : SlowAPIDispatch(r)
  \/ \E r \in S : HealthEndpoint(r)
  \/ \E r \in S, net \in {"ok", "fail"} : LeadEndpoint(r, net)
  \/ \E r \in S : RequestIdExit(r)
  \/ \E r \in S : append_request_id_header(r)
  \/ \E r \in S : ServerError(r)
  \/ \E r \in S : Close(r)
  \/ \E k \in Keys : WindowExpire(k)

\* two requests in flight, interleaved at every await of the stack, from
\* one client address
Next == NextOn(Slots, {"10.0.0.1"})
Spec == Init /\ [][Next]_vars

\* one request at a time, from either client address
NextClients == NextOn({1}, Clients)
SpecClients == Init /\ [][NextClients]_vars

\* ------------------------------------------------- the spreadsheet ledger
\* append_lead_to_sheet applied to a validated lead: with the one argument it
\* declares (nargs = 1) or the way main.py 148 calls it (nargs = 2)
SheetCall(nargs, b, net) ==
  /\ Len(sheet_rows) < MaxRows
  /\ LET lead == Lead(BodyTable[b])
         done == append_lead_to_sheet(nargs, settings, net)
         worksheet == IF Truthy(settings.google_sheet_worksheet)
                      THEN settings.google_sheet_worksheet ELSE "sheet1"
     IN  /\ sheet_call' = [nargs |-> nargs, outcome |-> done.outcome,
                           network |-> done.network, appended |-> done.appended]
         /\ sheet_rows' = IF done.appended
                          THEN Append(sheet_rows, <<worksheet, SheetRow(lead)>>)
                          ELSE sheet_rows
  /\ UNCHANGED <<settings, request_vars>>

NextSheets ==
  \E nargs \in {1, 2}, b \in {"valid", "full"}, net \in {"ok", "fail"} :
    SheetCall(nargs, b, net)

InitSheets ==
  /\ settings \in SheetSettingsSet
  /\ Idle

SpecSheets == InitSheets /\ [][NextSheets]_vars

\* ------------------------------------------------------------ properties
Done(r) == pc[r] = "done"
Resp(r) == result[r].resp
Limit == settings.rate_limit_per_minute
IsLead(r) == req[r].path = "/lead"
IsHealth(r) == req[r].path = "/health"
BodyErrors(r) == ValidationErrors(BodyTable[req[r].body])
ValidLead(r) == IsLead(r) /\ BodyErrors(r) = <<>>
\* the limiter read the request's counter and found room under the limit
Admitted(r) == seen[r] >= 0 /\ seen[r] < Limit
\* the id a request is to be known by: its X-Request-ID header, else the
\* identifier generated for it
ExpectedId(r) == IF req[r].header # None THEN req[r].header ELSE Uuid(r)
TooManyBody(r) ==
  /\ Resp(r).status_code = 429
  /\ Resp(r).status = "error"
  /\ Resp(r).message = "Too many requests. Please slow down."

\* C1: a POST /lead whose body satisfies the schema and that is not
\* rate-limited is answered 201 with the success envelope echoing the
\* validated lead, never 4xx or 5xx.
C1_ValidLeadCreated ==
  \A r \in Slots :
    Done(r) /\ ValidLead(r) /\ Admitted(r) =>
      /\ Resp(r).status_code = 201
      /\ Resp(r).status = "success"
      /\ Resp(r).data = {Lead(BodyTable[req[r].body])}

\* C2: every response carries X-Request-ID: the request's own header value
\* when it sent one, else the identifier generated for the request.
C2_EveryResponseHasRequestId ==
  \A r \in Slots :
    Done(r) => Resp(r).x_request_id # NoHeader /\ Resp(r).x_request_id = ExpectedId(r)

C7_OwnIdEverywhere ==
  \A r, q \in Slots :
    ( /\ r # q
      /\ Done(r)
      /\ pc[q] # "idle"
      /\ IsLead(r) /\ IsLead(q)
      /\ req[r].header # None /\ req[q].header # None
      /\ req[r].header # req[q].header )
    => /\ \A l \in log[r] : l[2] = req[r].header
       /\ Resp(r).x_request_id = req[r].header

\* C8: the spreadsheet integration is enabled exactly when both the
\* spreadsheet identifier and the credential blob are configured, and with
\* it disabled the call POST /lead makes, append_lead_to_sheet(lead,
\* source_hint), returns normally without any network call.
C8_DisabledSheetCallReturns ==
  /\ google_sheets_enabled(settings) <=>
       (settings.google_sheet_id \notin {None, ""}
          /\ settings.google_service_account_json \notin {None, ""})
  /\ (sheet_call.nargs = 2 /\ ~google_sheets_enabled(settings)) =>
       (sheet_call.outcome = "returned" /\ ~sheet_call.network)

\* C9: a POST /lead whose body violates the schema is answered 422 with the
\* first validation error's message and the list of field errors, and
\* neither downstream step is invoked.
C9_InvalidLeadIs422 ==
  \A r \in Slots :
    Done(r) /\ IsLead(r) /\ BodyErrors(r) # <<>> =>
      /\ Resp(r).status_code = 422
      /\ Resp(r).status = "error"
      /\ Resp(r).message = BodyErrors(r)[1].msg
      /\ Resp(r).details = BodyErrors(r)
      /\ steps[r] = <<>>

\* C10: once RequestIdMiddleware.dispatch has finished, by return or by
\* exception, the contextvar of its context holds the value it had before
\* the request, the default "-", and so does the context a request starts in.
C10_ContextRestored ==
  \A r \in Slots :
    pc[r] \in {"idle", "outer", "done"} =>
      ctx[r].dispatch = token[r] /\ ctx[r].dispatch = Default

\* C10 witness: one request has left dispatch by exception and another by
\* return, after each had set the contextvar to its own id.
C10_Witness ==
  \E r, q \in Slots :
    /\ pc[r] = "outer" /\ result[r].kind = "exception"
    /\ pc[q] = "outer" /\ result[q].kind = "response"
    /\ state_id[r] = ExpectedId(r) /\ state_id[q] = ExpectedId(q)
    /\ ctx[r].inner = state_id[r] /\ ctx[q].inner = state_id[q]

====
